---- MODULE Spec2Model ----
(***************************************************************************)
(* State-machine model of fui_kk/download_reports.py: the resumable        *)
(* download of nettskjema reports.  Text (names, URLs, identifiers, the    *)
(* content of downloaded.txt) is modelled as sequences of one-character    *)
(* strings, so that the regular-expression search of get_id, the split of  *)
(* read_list and the substring test of the filter are computed as the      *)
(* code computes them.                                                     *)
(***************************************************************************)
EXTENDS Integers, Sequences, FiniteSets, TLC

\* ------------------------------------------------------------------------
\* Bounds of the model
\* ------------------------------------------------------------------------
MaxRuns == 2
MaxForms == 2
MaxExtraDigits == 1

\* ------------------------------------------------------------------------
\* Text helpers
\* ------------------------------------------------------------------------
\* a file of the output directory: absent, or present with its content
NoFile == [exists |-> FALSE, data |-> <<>>]
File(content) == [exists |-> TRUE, data |-> content]
\* args.filter: None when --filter is not given, else the given string
NoFilter == [given |-> FALSE, text |-> <<>>]
FilterArg(s) == [given |-> TRUE, text |-> s]
NL == "\n"
Digits == {"0", "1", "2", "3", "4", "5", "6", "7", "8", "9"}
NonAscii == {"å"}

Min(S) == CHOOSE x \in S : \A y \in S : x <= y

RECURSIVE Flatten(_)
Flatten(ss) == IF ss = <<>> THEN <<>> ELSE Head(ss) \o Flatten(Tail(ss))

\* ------------------------------------------------------------------------
\* get_id: re.compile("id=[0-9]{1,10}").search(url), then m.group(0)[3:]
\* ------------------------------------------------------------------------
MaxIdDigits == 10

\* the pattern matches at position p: "id=" followed by at least one digit
MatchAt(url, p) ==
    /\ p + 3 <= Len(url)
    /\ url[p] = "i" /\ url[p + 1] = "d" /\ url[p + 2] = "="
    /\ url[p + 3] \in Digits

\* greedy [0-9]{1,n}: the number of digits consumed from position p, at most n
RECURSIVE DigitRun(_, _, _)
DigitRun(url, p, n) ==
    IF n = 0 \/ p > Len(url) \/ url[p] \notin Digits THEN 0
    ELSE 1 + DigitRun(url, p + 1, n - 1)

get_id_whole_match(url) ==
    LET starts == {p \in 1..Len(url) : MatchAt(url, p)}
    IN  IF starts = {} THEN <<>>
        ELSE LET p == Min(starts)
             IN  SubSeq(url, p, p + 2 + DigitRun(url, p + 3, MaxIdDigits))

get_id(url) ==
    LET starts == {p \in 1..Len(url) : MatchAt(url, p)}
    IN  IF starts = {} THEN <<>>
        ELSE LET p == Min(starts)
             IN  SubSeq(url, p + 3, p + 2 + DigitRun(url, p + 3, MaxIdDigits))

\* ------------------------------------------------------------------------
\* read_list: f.read().split("\n"), or [] when the file does not exist
\* ------------------------------------------------------------------------
RECURSIVE SplitFrom(_, _, _)
SplitFrom(text, p, cur) ==
    IF p > Len(text) THEN <<cur>>
    ELSE IF text[p] = NL THEN <<cur>> \o SplitFrom(text, p + 1, <<>>)
    ELSE SplitFrom(text, p + 1, Append(cur, text[p]))

Split(text) == SplitFrom(text, 1, <<>>)

read_list_never_found(file) == <<>>

read_list(file) == IF ~file.exists THEN <<>> ELSE Split(file.data)

InList(x, list) == \E k \in 1..Len(list) : list[k] = x

\* open(path, 'a') ... f.write(form_id + "\n")
write_line_truncating(file, line) == File(line \o <<NL>>)

append_line(file, line) == File(file.data \o line \o <<NL>>)

Max(S) == CHOOSE x \in S : \A y \in S : x >= y
Range(f) == {f[k] : k \in DOMAIN f}
IsPrefix(a, b) == Len(a) <= Len(b) /\ SubSeq(b, 1, Len(a)) = a

\* the lines of a text file as a reader of the file sees them: the pieces
\* that a newline terminates
NLPos(text) == {p \in 1..Len(text) : text[p] = NL}
LineEndingAt(text, p) ==
    LET before == {q \in NLPos(text) : q < p}
    IN  SubSeq(text, IF before = {} THEN 1 ELSE Max(before) + 1, p - 1)
LineSet(file) == {LineEndingAt(file.data, p) : p \in NLPos(file.data)}
RECURSIVE LineSeq(_)
LineSeq(text) ==
    IF NLPos(text) = {} THEN <<>>
    ELSE LET p == Min(NLPos(text))
         IN  <<SubSeq(text, 1, p - 1)>> \o LineSeq(SubSeq(text, p + 1, Len(text)))

\* read_binary: pickle.load of the file, or None when it does not exist;
\* write_binary: pickle.dump.  A list of (str, str) tuples pickles and
\* unpickles to an equal list.
read_binary(file) == file

write_binary(data) == File(data)

\* `if not formdata:` None and the empty list are both falsy
Falsy(loaded) == ~loaded.exists \/ loaded.data = <<>>

\* ------------------------------------------------------------------------
\* The filter: [x for x in formdata if args.filter in x[0]]
\* ------------------------------------------------------------------------
\* Python's `sub in text`: scan the start positions from the left
RECURSIVE FindFrom(_, _, _)
FindFrom(sub, text, p) ==
    IF p + Len(sub) - 1 > Len(text) THEN FALSE
    ELSE IF SubSeq(text, p, p + Len(sub) - 1) = sub THEN TRUE
    ELSE FindFrom(sub, text, p + 1)

str_in_prefix_only(sub, text) ==
    Len(sub) <= Len(text) /\ SubSeq(text, 1, Len(sub)) = sub

str_in(sub, text) == FindFrom(sub, text, 1)

RECURSIVE filter_forms(_, _)
filter_forms(forms, sub) ==
    IF forms = <<>> THEN <<>>
    ELSE IF str_in(sub, Head(forms).name)
         THEN <<Head(forms)>> \o filter_forms(Tail(forms), sub)
         ELSE filter_forms(Tail(forms), sub)

\* `if args.filter:` an absent filter and the empty string are both falsy
Truthy(f) == f.given /\ f.text # <<>>

\* print(...) can raise UnicodeEncodeError only for text outside ASCII:
\* whether it does depends on the encoding of the terminal
AsciiOnly(name) == \A k \in 1..Len(name) : name[k] \notin NonAscii

\* ------------------------------------------------------------------------
\* try_to_find_int: int(driver.find_element_by_css_selector(selector).text),
\* or 0 when anything in that raises
\* ------------------------------------------------------------------------
\* an element of the page: missing, or present with its text
Missing == [exists |-> FALSE, text |-> <<>>]
Element(text) == [exists |-> TRUE, text |-> text]

Blank == " "
RECURSIVE StripLeft(_)
StripLeft(text) ==
    IF text # <<>> /\ Head(text) = Blank THEN StripLeft(Tail(text)) ELSE text
RECURSIVE StripRight(_)
StripRight(text) ==
    IF text # <<>> /\ text[Len(text)] = Blank
    THEN StripRight(SubSeq(text, 1, Len(text) - 1))
    ELSE text

DigitValue(c) == CHOOSE n \in 0..9 : <<"0", "1", "2", "3", "4", "5", "6", "7", "8", "9">>[n + 1] = c
RECURSIVE DecValue(_)
DecValue(ds) ==
    IF ds = <<>> THEN 0
    ELSE 10 * DecValue(SubSeq(ds, 1, Len(ds) - 1)) + DigitValue(ds[Len(ds)])

\* int(text) of a str: blanks around the number are dropped, one sign may
\* precede the digits, anything else raises ValueError
py_int(text) ==
    LET t == StripRight(StripLeft(text))
        signed == t # <<>> /\ Head(t) \in {"-", "+"}
        ds == IF signed THEN Tail(t) ELSE t
    IN  IF ds # <<>> /\ \A k \in 1..Len(ds) : ds[k] \in Digits
        THEN [raises |-> FALSE,
              value |-> IF signed /\ Head(t) = "-" THEN 0 - DecValue(ds)
                        ELSE DecValue(ds)]
        ELSE [raises |-> TRUE, value |-> 0]

try_to_find_int_default_one(el) ==
    IF ~el.exists \/ py_int(el.text).raises THEN 1 ELSE py_int(el.text).value

try_to_find_int(el) ==
    IF ~el.exists \/ py_int(el.text).raises THEN 0 ELSE py_int(el.text).value

\* the three counters of a results page, by the selector that finds them
Page(delivered, saved, invitations) ==
    [delivered |-> delivered, saved |-> saved, invitations |-> invitations]
\* the page shown instead when the browser is not logged in has none of them
LoginPage == Page(Missing, Missing, Missing)
\* lines 197-201
read_stats(page) ==
    [answered |-> try_to_find_int(page.delivered),
     started |-> try_to_find_int(page.saved),
     invited |-> try_to_find_int(page.invitations)]
NoStats == [answered |-> 0, started |-> 0, invited |-> 0]
\* the results page of the forms of the main model: 12 delivered, 2 saved,
\* no invitations
DefaultSite ==
    Page(Element(<<"1", "2">>), Element(<<"2">>), Missing)

\* ------------------------------------------------------------------------
\* The forms the site can list
\* ------------------------------------------------------------------------
FormA == [name |-> <<"S", "a">>, url |-> <<"p", "?", "i", "d", "=", "1">>]
FormB == [name |-> <<"S", "b">>, url |-> <<"p", "?", "i", "d", "=", "2">>]
\* a second entry carrying identifier 1, with a name outside ASCII
FormC == [name |-> <<"S", "å">>, url |-> <<"r", "?", "i", "d", "=", "1">>]
\* an entry whose URL carries no identifier
FormD == [name |-> <<"S", "x">>, url |-> <<"p", "?", "x">>]
Forms == {FormA, FormB, FormC, FormD}

SeqsUpTo(S, n) == UNION {[1..k -> S] : k \in 0..n}
\* the site lists each form once
Listings ==
    {l \in SeqsUpTo(Forms, MaxForms) :
        \A j, k \in 1..Len(l) : l[j] = l[k] => j = k}

KindNames == {"tsv", "html", "stats"}
ArgSets ==
    {[filter |-> f, tsv |-> t, html |-> h, stats |-> s] :
        f \in {NoFilter, FilterArg(<<"a">>)},
        t \in BOOLEAN, h \in BOOLEAN, s \in BOOLEAN}
\* get_args: when no kind is asked for, all three are
get_args(a) ==
    IF ~(a.tsv \/ a.html \/ a.stats)
    THEN [a EXCEPT !.tsv = TRUE, !.html = TRUE, !.stats = TRUE]
    ELSE a
Requested(a) ==
    (IF a.tsv THEN {"tsv"} ELSE {}) \cup (IF a.html THEN {"html"} ELSE {})
        \cup (IF a.stats THEN {"stats"} ELSE {})

\* ------------------------------------------------------------------------
\* State
\* ------------------------------------------------------------------------
VARIABLES
    downloaded_txt,  \* <out>/downloaded.txt
    formdata_dat,    \* <out>/formdata.dat
    pc,              \* position of the process: "idle" before the first run,
                     \* "exited" / "killed" after a run
    args,            \* the parsed command line of the run
    downloaded,      \* download_files: the list read from downloaded.txt
    formdata,        \* download_files: the catalog being iterated
    i,               \* download_files: index of the current catalog entry
    form_id,         \* download_files: identifier of the current entry
    driver,          \* the browser session: "none", "open", "closed"
    session,         \* the requests session: "none", "open"
    raised,          \* the exception in flight, "none" if none
    label,           \* the label of the error block printed by error()
    exit_code,       \* exit status of the run that ended last
    report,          \* the counts printed by the filter
    run,             \* number of runs started
    log0,            \* history: downloaded.txt when the run started
    navs,            \* history: entries whose results page was opened
    fetches,         \* history: <<entry, kind>> fetched over HTTP
    writes,          \* history: <<entry, kind>> written to the output tree
    appends,         \* history: entries appended to downloaded.txt, in order
    skipped,         \* history: entries skipped
    listings,        \* history: navigations to the form list in this run
    aborted_at,      \* history: the entry whose progress line failed, or 0
    completed,       \* history: names all of whose requested kinds a run wrote
    inflight,        \* history: the entry a killed run had written and not
                     \* appended, and whether its identifier was a line then
    logged_in,       \* whether the site accepted the login of this run
    cookies,         \* the cookies copied into the requests session: "none"
                     \* before the copy, then "auth" or "anon"
    site,            \* the results page the site shows for a form
    stats,           \* download_files: the stats read from the results page
    rejected,        \* whether a fetch for the current entry was answered
                     \* with something other than the artifact
    failed,          \* history: the entry at which a fetch of the previous run
                     \* raised, and the entries that run had appended
    prev             \* history: the previous run, when it completed normally

vars == <<downloaded_txt, formdata_dat, pc, args, downloaded, formdata, i,
          form_id, driver, session, raised, label, exit_code, report, run,
          log0, navs, fetches, writes, appends, skipped, listings,
          aborted_at, completed, inflight, failed, prev, logged_in, cookies,
          site, stats, rejected>>

files == <<downloaded_txt, formdata_dat>>
locals == <<args, downloaded, formdata, i, form_id, report>>
resources == <<driver, session>>
outcome == <<raised, label, exit_code>>
history == <<run, log0, navs, fetches, writes, appends, skipped, listings,
             aborted_at>>
memory == <<completed, inflight, failed, prev>>
web == <<logged_in, cookies, site, stats, rejected>>

NoPrev == [valid |-> FALSE, args |-> get_args([filter |-> NoFilter,
           tsv |-> TRUE, html |-> TRUE, stats |-> TRUE]), forms |-> <<>>,
           processed |-> {}]
NoInflight == [valid |-> FALSE, form |-> FormA, logged |-> FALSE]
NoFailed == [valid |-> FALSE, form |-> FormA, logged |-> FALSE, done |-> {}]

Init ==
    /\ downloaded_txt = NoFile
    /\ formdata_dat = NoFile
    /\ pc = "idle"
    /\ args = NoPrev.args
    /\ downloaded = <<>>
    /\ formdata = <<>>
    /\ i = 1
    /\ form_id = <<>>
    /\ driver = "none"
    /\ session = "none"
    /\ raised = "none"
    /\ label = "none"
    /\ exit_code = 0
    /\ report = <<>>
    /\ run = 0
    /\ log0 = NoFile
    /\ navs = {}
    /\ fetches = {}
    /\ writes = {}
    /\ appends = <<>>
    /\ skipped = {}
    /\ listings = 0
    /\ aborted_at = 0
    /\ completed = {}
    /\ inflight = NoInflight
    /\ failed = NoFailed
    /\ prev = NoPrev
    /\ logged_in = FALSE
    /\ cookies = "none"
    /\ site = DefaultSite
    /\ stats = NoStats
    /\ rejected = FALSE
\* ------------------------------------------------------------------------
\* main: one run of the script
\* ------------------------------------------------------------------------
Running == {"login", "read_list", "catalog", "filter", "bridge", "loop",
            "check", "nav", "tsv", "html", "stats", "append", "except",
            "finally"}

\* the order of the blocks of the loop body, lines 203-218
AfterHtml(a) == IF a.stats THEN "stats" ELSE "append"
AfterTsv_no_html(a) == AfterHtml(a)
AfterTsv(a) == IF a.html THEN "html" ELSE AfterHtml(a)
AfterNav_html_first(a) == IF a.html THEN "html" ELSE AfterHtml(a)
AfterNav(a) == IF a.tsv THEN "tsv" ELSE AfterTsv(a)

\* the names for which a run has written every kind it was asked for
Written(next) ==
    IF next = "append" THEN completed \cup {formdata[i].name} ELSE completed

\* sys.exit(-1) ends the process with status 255; an uncaught exception
\* with status 1
ExitStatus(e) == IF e = "none" THEN 0 ELSE IF e = "SystemExit" THEN 255 ELSE 1

\* a new process is started on the same output directory
StartRun ==
    \E a \in ArgSets :
        /\ pc \in {"idle", "exited", "killed"}
        /\ run < MaxRuns
        /\ pc' = "login"
        /\ args' = get_args(a)
        /\ downloaded' = <<>>
        /\ formdata' = <<>>
        /\ i' = 1
        /\ form_id' = <<>>
        /\ driver' = "open"
        /\ session' = "none"
        /\ raised' = "none"
        /\ label' = "none"
        /\ exit_code' = 0
        /\ report' = <<>>
        /\ run' = run + 1
        /\ log0' = downloaded_txt
        /\ navs' = {}
        /\ fetches' = {}
        /\ writes' = {}
        /\ appends' = <<>>
        /\ skipped' = {}
        /\ listings' = 0
        /\ aborted_at' = 0
        /\ logged_in' = FALSE
        /\ cookies' = "none"
        /\ stats' = NoStats
        /\ rejected' = FALSE
        /\ prev' = IF pc = "exited" /\ exit_code = 0
                   THEN [valid |-> TRUE, args |-> args, forms |-> formdata,
                         processed |-> navs]
                   ELSE NoPrev
        /\ UNCHANGED <<files, completed, inflight, failed, site>>

\* login(driver, args) returns once the submit click is dispatched, whether
\* or not the site accepts the user name and password
LoginOk ==
    /\ pc = "login"
    /\ logged_in' \in BOOLEAN
    /\ pc' = "read_list"
    /\ UNCHANGED <<cookies, site, stats, rejected, files, locals, resources,
                   outcome, history, memory>>

\* a find_element_by_css_selector of login raises
LoginRaises ==
    /\ pc = "login"
    /\ raised' = "NoSuchElementException"
    /\ pc' = "except"
    /\ UNCHANGED <<web, files, locals, resources, label, exit_code, history,
                   memory>>

\* line 151
ReadList ==
    /\ pc = "read_list"
    /\ downloaded' = read_list(downloaded_txt)
    /\ pc' = "catalog"
    /\ UNCHANGED <<web, files, args, formdata, i, form_id, report, resources,
                   outcome, history, memory>>

\* lines 153-158, the persisted catalog is usable
CatalogLoad ==
    /\ pc = "catalog"
    /\ ~Falsy(read_binary(formdata_dat))
    /\ formdata' = read_binary(formdata_dat).data
    /\ pc' = "filter"
    /\ UNCHANGED <<web, files, args, downloaded, i, form_id, report, resources,
                   outcome, history, memory>>

\* the form list shows the forms of the user who is logged in; without a
\* login no element matches '.forms .formName'
SiteListings(in) == IF in THEN Listings ELSE {<<>>}

\* lines 153-158, the catalog is read from the form list of the site
CatalogDiscover ==
    /\ pc = "catalog"
    /\ Falsy(read_binary(formdata_dat))
    /\ \E listing \in SiteListings(logged_in) :
        /\ formdata' = listing
        /\ formdata_dat' = write_binary(listing)
    /\ listings' = listings + 1
    /\ pc' = "filter"
    /\ UNCHANGED <<web, downloaded_txt, args, downloaded, i, form_id, report,
                   resources, outcome, run, log0, navs, fetches, writes,
                   appends, skipped, aborted_at, memory>>

\* lines 160-163
Filter ==
    /\ pc = "filter"
    /\ IF Truthy(args.filter)
       THEN LET filtered == filter_forms(formdata, args.filter.text)
            IN  /\ report' = <<Len(filtered), Len(formdata)>>
                /\ formdata' = filtered
       ELSE UNCHANGED <<report, formdata>>
    /\ pc' = "bridge"
    /\ UNCHANGED <<web, files, args, downloaded, i, form_id, resources, outcome,
                   history, memory>>

\* lines 165-172: the cookies of the browser go into a requests session
Bridge_no_copy ==
    /\ pc = "bridge"
    /\ pc' = "loop"
    /\ UNCHANGED <<web, files, locals, resources, outcome, history, memory>>

\* the cookies of a browser whose login the site accepted carry the session
BrowserCookies(in) == IF in THEN "auth" ELSE "anon"

Bridge ==
    /\ pc = "bridge"
    /\ session' = "open"
    /\ cookies' = BrowserCookies(logged_in)
    /\ pc' = "loop"
    /\ UNCHANGED <<logged_in, site, stats, rejected, files, locals, driver,
                   outcome, history, memory>>

\* line 174, the catalog is exhausted: download_files returns
LoopEnd ==
    /\ pc = "loop"
    /\ i > Len(formdata)
    /\ pc' = "finally"
    /\ UNCHANGED <<web, files, locals, resources, outcome, history, memory>>

\* lines 174-175
GetId ==
    /\ pc = "loop"
    /\ i <= Len(formdata)
    /\ form_id' = get_id(formdata[i].url)
    /\ pc' = "check"
    /\ UNCHANGED <<web, files, args, downloaded, formdata, i, report, resources,
                   outcome, history, memory>>

\* lines 178-180
Skip ==
    /\ pc = "check"
    /\ InList(form_id, downloaded)
    /\ skipped' = skipped \cup {i}
    /\ i' = i + 1
    /\ pc' = "loop"
    /\ UNCHANGED <<web, files, args, downloaded, formdata, form_id, report,
                   resources, outcome, run, log0, navs, fetches, writes,
                   appends, listings, aborted_at, memory>>

\* line 181
Fetching ==
    /\ pc = "check"
    /\ ~InList(form_id, downloaded)
    /\ pc' = "nav"
    /\ UNCHANGED <<web, files, locals, resources, outcome, history, memory>>

EncodingError_goes_on ==
    /\ pc = "check"
    /\ ~AsciiOnly(formdata[i].name)
    /\ aborted_at' = i
    /\ pc' = "nav"
    /\ UNCHANGED <<web, files, locals, resources, outcome, run, log0, navs,
                   fetches, writes, appends, skipped, listings, memory>>

\* lines 182-194: either print raised UnicodeEncodeError; error() prints
\* the block and exits, unless os_encode(name) raises in turn
EncodingError ==
    /\ pc = "check"
    /\ ~AsciiOnly(formdata[i].name)
    /\ \/ raised' = "SystemExit" /\ label' = "Non-unicode codepage"
       \/ raised' = "UnicodeEncodeError" /\ UNCHANGED label
    /\ aborted_at' = i
    /\ pc' = "except"
    /\ UNCHANGED <<web, files, locals, resources, exit_code, run, log0, navs,
                   fetches, writes, appends, skipped, listings, memory>>

\* the page that driver.get(results_url) loads
ResultsPage == IF logged_in THEN site ELSE LoginPage

\* lines 195-202
Nav ==
    /\ pc = "nav"
    /\ navs' = navs \cup {i}
    /\ stats' = read_stats(ResultsPage)
    /\ pc' = AfterNav(args)
    /\ completed' = Written(AfterNav(args))
    /\ UNCHANGED <<logged_in, cookies, site, rejected, files, locals,
                   resources, outcome, run, log0, fetches,
                   writes, appends, skipped, listings, aborted_at, inflight, failed, prev>>

\* session.get returns a response whatever its status: the artifact, or an
\* error page of the site; without the cookies of a login, never the artifact
Responses(jar) == IF jar = "auth" THEN BOOLEAN ELSE {FALSE}

\* lines 203-206
Tsv ==
    /\ pc = "tsv"
    /\ \E ok \in Responses(cookies) : rejected' = (rejected \/ ~ok)
    /\ fetches' = fetches \cup {<<i, "tsv">>}
    /\ writes' = writes \cup {<<i, "tsv">>}
    /\ pc' = AfterTsv(args)
    /\ completed' = Written(AfterTsv(args))
    /\ UNCHANGED <<logged_in, cookies, site, stats, files, locals, resources,
                   outcome, run, log0, navs,
                   appends, skipped, listings, aborted_at, inflight, failed, prev>>

\* lines 208-211
Html ==
    /\ pc = "html"
    /\ \E ok \in Responses(cookies) : rejected' = (rejected \/ ~ok)
    /\ fetches' = fetches \cup {<<i, "html">>}
    /\ writes' = writes \cup {<<i, "html">>}
    /\ pc' = AfterHtml(args)
    /\ completed' = Written(AfterHtml(args))
    /\ UNCHANGED <<logged_in, cookies, site, stats, files, locals, resources,
                   outcome, run, log0, navs,
                   appends, skipped, listings, aborted_at, inflight, failed, prev>>

\* session.get raises at line 205 or 210
FetchRaises ==
    /\ pc \in {"tsv", "html"}
    /\ fetches' = fetches \cup {<<i, pc>>}
    /\ raised' \in {"TooManyRedirects", "ConnectionError"}
    /\ pc' = "except"
    /\ UNCHANGED <<web, files, locals, resources, label, exit_code, run, log0,
                   navs, writes, appends, skipped, listings, aborted_at, memory>>

\* lines 213-215
Stats ==
    /\ pc = "stats"
    /\ writes' = writes \cup {<<i, "stats">>}
    /\ pc' = "append"
    /\ completed' = Written("append")
    /\ UNCHANGED <<web, files, locals, resources, outcome, run, log0, navs,
                   fetches, appends, skipped, listings, aborted_at, inflight, failed, prev>>

\* lines 217-218
AppendLog ==
    /\ pc = "append"
    /\ downloaded_txt' = append_line(downloaded_txt, form_id)
    /\ appends' = Append(appends, i)
    /\ rejected' = FALSE
    /\ i' = i + 1
    /\ pc' = "loop"
    /\ UNCHANGED <<logged_in, cookies, site, stats, formdata_dat, args,
                   downloaded, formdata, form_id, report,
                   resources, outcome, run, log0, navs, fetches, writes,
                   skipped, listings, aborted_at, memory>>

\* lines 229-232
Except ==
    /\ pc = "except"
    /\ IF raised = "TooManyRedirects"
       THEN raised' = "SystemExit" /\ label' = "Nettskjema"
       ELSE UNCHANGED <<raised, label>>
    /\ pc' = "finally"
    /\ UNCHANGED <<web, files, locals, resources, exit_code, history, memory>>

\* a session.get for entry j raised: it was started and nothing was written
FetchFailedAt(j) ==
    \E kind \in {"tsv", "html"} : <<j, kind>> \in fetches \ writes

\* lines 233-235, then the process ends
Finally ==
    /\ pc = "finally"
    /\ driver' = "closed"
    /\ exit_code' = ExitStatus(raised)
    /\ inflight' = NoInflight
    /\ failed' = IF FetchFailedAt(i)
                 THEN [valid |-> TRUE, form |-> formdata[i],
                       logged |-> form_id \in LineSet(downloaded_txt),
                       done |-> {formdata[j] : j \in Range(appends)}]
                 ELSE NoFailed
    /\ pc' = "exited"
    /\ UNCHANGED <<web, files, locals, session, raised, label, history,
                   completed,
                   prev>>

\* the process is terminated from outside, at any point
Crash ==
    /\ pc \in Running
    /\ inflight' = IF pc = "append"
                   THEN [valid |-> TRUE, form |-> formdata[i],
                         logged |-> form_id \in LineSet(downloaded_txt)]
                   ELSE NoInflight
    /\ failed' = NoFailed
    /\ exit_code' = 137
    /\ pc' = "killed"
    /\ UNCHANGED <<web, files, locals, resources, raised, label, history,
                   completed, prev>>

Next ==
    \/ StartRun
    \/ LoginOk
    \/ LoginRaises
    \/ ReadList
    \/ CatalogLoad
    \/ CatalogDiscover
    \/ Filter
    \/ Bridge
    \/ LoopEnd
    \/ GetId
    \/ Skip
    \/ Fetching
    \/ EncodingError
    \/ Nav
    \/ Tsv
    \/ Html
    \/ FetchRaises
    \/ Stats
    \/ AppendLog
    \/ Except
    \/ Finally
    \/ Crash

Spec == Init /\ [][Next]_vars
\* ------------------------------------------------------------------------
\* Vocabulary of the properties
\* ------------------------------------------------------------------------
IdOf(j) == get_id(formdata[j].url)
\* the text that appending the identifiers of the entries js writes
LinesFor(js) == Flatten([k \in 1..Len(js) |-> IdOf(js[k]) \o <<NL>>])
AllWritten(j) == \A kind \in Requested(args) : <<j, kind>> \in writes
Untouched(j) ==
    /\ j \notin navs
    /\ \A kind \in KindNames : <<j, kind>> \notin fetches \cup writes
    /\ j \notin Range(appends)
Indices == [j \in 1..Len(formdata) |-> j]
EndedItself == pc \in {"except", "finally", "exited"}

\* C1: downloaded.txt holds the lines it held when the run started followed
\* by one line per append of the run, each append was made after the results
\* page was read and every requested kind was written for that entry, and
\* every entry the loop has left behind was skipped or written and appended.
CompletionLogInv ==
    /\ downloaded_txt.data = log0.data \o LinesFor(appends)
    /\ downloaded_txt.exists = (log0.exists \/ appends # <<>>)
    /\ \A k \in 1..Len(appends) : appends[k] \in navs /\ AllWritten(appends[k])
    /\ \A j \in 1..(i - 1) : j \in skipped \/ j \in Range(appends)
    /\ \A j \in Range(appends) : j < i /\ j \notin skipped

\* C1 witness: a second run, killed after it appended an entry for which it
\* wrote all three kinds
CompletionLogSeen ==
    /\ pc = "killed"
    /\ log0.exists
    /\ appends # <<>>
    /\ Requested(args) = KindNames

\* C2 as stated: when the previous run completed normally and this run has
\* the same arguments and catalog, the previous run processed no identifier
\* twice, and this run opens no results page, fetches and writes nothing and
\* leaves downloaded.txt as it found it.
IdempotentResume ==
    (prev.valid /\ args = prev.args /\ formdata = prev.forms
        /\ pc \notin {"login", "read_list", "catalog", "filter"})
    => /\ \A j, k \in prev.processed :
            get_id(prev.forms[j].url) = get_id(prev.forms[k].url) => j = k
       /\ navs = {} /\ fetches = {} /\ writes = {} /\ appends = <<>>
       /\ downloaded_txt = log0

\* C3 as stated: an entry whose identifier is a line of downloaded.txt when
\* the run starts is left untouched and the run goes on to the next entry.
SkipRuleAsStated ==
    \A j \in 1..Len(formdata) :
        IdOf(j) \in LineSet(log0)
        => /\ Untouched(j)
           /\ j < i => j \in skipped
           /\ j = i => pc \notin {"nav", "tsv", "html", "stats", "append"}
           /\ aborted_at # j

\* C3 amended: such an entry is left untouched, and the run goes on to the
\* next entry unless the "Skipping" line cannot be printed, in which case the
\* run ends there with the encoding error.
SkipRule ==
    \A j \in 1..Len(formdata) :
        IdOf(j) \in LineSet(log0)
        => /\ Untouched(j)
           /\ j < i => j \in skipped
           /\ j = i => pc \notin {"nav", "tsv", "html", "stats", "append"}
           /\ (j = i /\ EndedItself)
                => aborted_at = j \/ raised = "NoSuchElementException"
           /\ aborted_at = j
                => /\ ~AsciiOnly(formdata[j].name)
                   /\ raised \in {"SystemExit", "UnicodeEncodeError"}
                   /\ raised = "SystemExit" => label = "Non-unicode codepage"

\* C3 witness: an entry recorded by a run that was asked for fewer kinds is
\* skipped
SkipRuleSeen ==
    /\ prev.valid
    /\ Requested(prev.args) # Requested(args)
    /\ Requested(prev.args) \subseteq Requested(args)
    /\ \E j \in skipped : IdOf(j) \in LineSet(log0) /\ IdOf(j) # <<>> /\ j < i

\* C4 as stated: the entry that a killed run had fully written, and whose
\* identifier was then no line of the log, is not skipped by the next run, which appends it only after it has
\* opened the results page and written every requested kind again.
CompletionDurability ==
    (inflight.valid /\ ~inflight.logged)
    => \A j \in 1..Len(formdata) :
          formdata[j] = inflight.form
          => /\ j \notin skipped
             /\ j \in Range(appends) => j \in navs /\ AllWritten(j)

\* C5: every step leaves the content of downloaded.txt a prefix of its new
\* content and never removes the file; a killed process changes nothing.
AppendOnly ==
    [][/\ downloaded_txt.exists => downloaded_txt'.exists
       /\ IsPrefix(downloaded_txt.data, downloaded_txt'.data)
       /\ pc' = "killed" => downloaded_txt' = downloaded_txt]_vars

\* C5 witness: a run that found a log and appended to it was killed
AppendOnlySeen ==
    /\ pc = "killed"
    /\ log0.exists
    /\ Len(appends) >= 1
    /\ Len(downloaded_txt.data) > Len(log0.data)

\* C6 as stated: a run that completes normally leaves downloaded.txt as the
\* initial log followed by the identifiers of the entries whose identifier
\* is not a line of the initial log, in catalog order, and has written
\* exactly the requested kinds of exactly those entries.
RunOutcome ==
    (pc = "exited" /\ exit_code = 0)
    => LET todo == SelectSeq(Indices, LAMBDA j : IdOf(j) \notin LineSet(log0))
       IN  /\ downloaded_txt.data = log0.data \o LinesFor(todo)
           /\ writes = Range(todo) \X Requested(args)

\* C7 as stated: no identifier is processed twice in a run and no identifier
\* is a line of downloaded.txt twice.
DedupByIdentifier ==
    /\ \A j, k \in navs : IdOf(j) = IdOf(k) => j = k
    /\ LET lines == LineSeq(downloaded_txt.data)
       IN  \A a, b \in 1..Len(lines) : lines[a] = lines[b] => a = b

\* C8 as stated: (a) an entry with a real identifier is skipped only when
\* that identifier is a line of the log, and (b) an entry without identifier
\* is skipped only when a run has written all the kinds asked for it.
MissingIdentifier ==
    \A j \in skipped :
        /\ IdOf(j) # <<>> => IdOf(j) \in LineSet(log0)
        /\ IdOf(j) = <<>> => formdata[j].name \in completed
\* ------------------------------------------------------------------------
\* get_id on its own: one URL is drawn, GetId extracts its identifier
\* ------------------------------------------------------------------------
Ones(k) == [j \in 1..k |-> "1"]
DigitSamples ==
    {Ones(k) \o t : k \in 0..MaxIdDigits, t \in SeqsUpTo({"1", "2"}, MaxExtraDigits)}
UrlSamples ==
    {pre \o mark \o ds \o suf :
        pre \in {<<>>, <<"p", "?">>, <<"i", "d", "=", "x", "&">>,
                 <<"u", "i", "d", "=", "7", "&">>},
        mark \in {<<"i", "d", "=">>, <<"d", "=">>},
        ds \in DigitSamples,
        suf \in {<<>>, <<"&", "e">>}}

\* the process is in the loop of download_files, before its first entry
InLoop(a, catalog, persisted) ==
    /\ downloaded_txt = NoFile
    /\ formdata_dat = persisted
    /\ args = a
    /\ downloaded = <<>>
    /\ formdata = catalog
    /\ i = 1
    /\ form_id = <<>>
    /\ driver = "open"
    /\ raised = "none"
    /\ label = "none"
    /\ exit_code = 0
    /\ report = <<>>
    /\ run = 1
    /\ log0 = NoFile
    /\ navs = {}
    /\ fetches = {}
    /\ writes = {}
    /\ appends = <<>>
    /\ skipped = {}
    /\ listings = 0
    /\ aborted_at = 0
    /\ completed = {}
    /\ inflight = NoInflight
    /\ failed = NoFailed
    /\ prev = NoPrev
    /\ logged_in = TRUE

InitGetId ==
    \E u \in UrlSamples :
        /\ InLoop(NoPrev.args, <<[name |-> <<"S", "a">>, url |-> u]>>, NoFile)
        /\ session = "open"
        /\ cookies = "auth"
        /\ site = DefaultSite
        /\ stats = NoStats
        /\ rejected = FALSE
        /\ pc = "loop"

NextGetId == GetId

SpecGetId == InitGetId /\ [][NextGetId]_vars

\* the identifier a URL carries: all the digits that follow the leftmost
\* "id=" that a digit follows
MarkerAt(url, p) ==
    /\ p + 3 <= Len(url)
    /\ SubSeq(url, p, p + 2) = <<"i", "d", "=">>
    /\ url[p + 3] \in Digits
HasMarker(url) == \E p \in 1..Len(url) : MarkerAt(url, p)
CarriedId(url) ==
    LET p == CHOOSE q \in 1..Len(url) :
                 MarkerAt(url, q) /\ \A r \in 1..(q - 1) : ~MarkerAt(url, r)
        last == Max({e \in (p + 3)..Len(url) :
                        \A q \in (p + 3)..e : url[q] \in Digits})
    IN  SubSeq(url, p + 3, last)
FirstN(text, n) == SubSeq(text, 1, IF Len(text) < n THEN Len(text) ELSE n)

\* C9 as stated: get_id returns all the digits that follow the marker, the
\* empty string exactly when there is no marker, and different identifiers
\* for URLs that carry different identifiers.
IdExtractionAsStated ==
    pc = "check"
    => LET url == formdata[i].url
       IN  /\ (form_id = <<>>) = ~HasMarker(url)
           /\ HasMarker(url) => form_id = CarriedId(url)
           /\ \A u \in UrlSamples :
                (HasMarker(url) /\ HasMarker(u) /\ CarriedId(url) # CarriedId(u))
                => get_id(u) # form_id

\* C9 amended: get_id returns the first MaxIdDigits digits at most of the
\* digits that follow the marker, the empty string exactly when there is no
\* marker, and different identifiers for URLs that carry different
\* identifiers of at most MaxIdDigits digits.
IdExtraction ==
    pc = "check"
    => LET url == formdata[i].url
       IN  /\ (form_id = <<>>) = ~HasMarker(url)
           /\ HasMarker(url) => form_id = FirstN(CarriedId(url), MaxIdDigits)
           /\ \A u \in UrlSamples :
                (/\ HasMarker(url) /\ HasMarker(u)
                 /\ Len(CarriedId(url)) <= MaxIdDigits
                 /\ Len(CarriedId(u)) <= MaxIdDigits
                 /\ CarriedId(url) # CarriedId(u))
                => get_id(u) # form_id

\* C9 witness: an identifier of more than MaxIdDigits digits was extracted
IdExtractionSeen ==
    /\ pc = "check"
    /\ HasMarker(formdata[i].url)
    /\ Len(CarriedId(formdata[i].url)) > MaxIdDigits
    /\ Len(form_id) = MaxIdDigits

\* ------------------------------------------------------------------------
\* The filter on its own: a catalog and a filter are drawn, Filter applies
\* ------------------------------------------------------------------------
MaxFilterForms == 3
NameSamples ==
    {<<>>, <<"a">>, <<"b">>, <<"a", "b">>, <<"b", "a">>, <<"A", "b">>,
     <<"a", "a", "b">>}
FilterSamples ==
    {NoFilter} \cup
    {FilterArg(t) : t \in {<<>>, <<"a">>, <<"b">>, <<"A">>, <<"a", "b">>, <<"b", "a">>}}

InitFilter ==
    \E catalog \in SeqsUpTo({[name |-> n, url |-> FormA.url] : n \in NameSamples},
                            MaxFilterForms),
       f \in FilterSamples :
        /\ InLoop([NoPrev.args EXCEPT !.filter = f], catalog, File(catalog))
        /\ session = "none"
        /\ cookies = "none"
        /\ site = DefaultSite
        /\ stats = NoStats
        /\ rejected = FALSE
        /\ pc = "filter"

NextFilter == Filter

SpecFilter == InitFilter /\ [][NextFilter]_vars

\* sub occurs in text, letter for letter
Contains(text, sub) ==
    \E a \in 0..Len(text) :
        a + Len(sub) <= Len(text) /\ SubSeq(text, a + 1, a + Len(sub)) = sub
\* part is made of the entries of whole at the positions pos, in their order
IsSubsequenceAt(part, whole, pos) ==
    /\ Len(part) = Cardinality(pos)
    /\ \E f \in [1..Len(part) -> pos] :
        /\ \A a, b \in 1..Len(part) : a < b => f[a] < f[b]
        /\ \A a \in 1..Len(part) : part[a] = whole[f[a]]

CatalogCacheLoad ==
    [][(pc = "catalog" /\ pc' = "filter")
       => IF formdata_dat.exists
          THEN /\ formdata' = formdata_dat.data
               /\ listings' = listings
               /\ formdata_dat' = formdata_dat
          ELSE /\ listings' = listings + 1
               /\ formdata_dat' = File(formdata')]_vars

\* C12 as stated: once formdata.dat exists no step of any run changes it,
\* whatever the filters of the runs; it is written by the catalog step only,
\* with the whole discovered catalog, and the filter leaves it alone.
CatalogImmutable ==
    [][/\ formdata_dat.exists => formdata_dat' = formdata_dat
       /\ formdata_dat' # formdata_dat
            => pc = "catalog" /\ formdata_dat' = File(formdata')
       /\ pc = "filter" => formdata_dat' = formdata_dat]_vars

\* ------------------------------------------------------------------------
\* Properties of the end of a run
\* ------------------------------------------------------------------------
\* C13 as stated: when main has ended by itself, on any path, the browser
\* session is closed and the requests session, if one was created, is
\* closed too.
GuaranteedCleanup ==
    pc = "exited" => driver = "closed" /\ session # "open"

\* C14 as stated: a run that completes normally ends with status 0; a run
\* stopped by a name that cannot be printed, or by too many redirects, has
\* printed the labeled block of error() and ends with a status other than 0;
\* no run in which an exception was raised ends with status 0.
ExitBehaviour ==
    /\ pc = "finally" => raised # "TooManyRedirects"
    /\ pc = "exited"
         => /\ raised = "none" => exit_code = 0
            /\ aborted_at # 0 => label # "none" /\ exit_code # 0
            /\ label # "none" => raised = "SystemExit" /\ exit_code # 0
            /\ exit_code = 0 => raised = "none"

\* C15: once the progress line of an entry could not be printed, the run is
\* over: the loop stays at that entry with the exception raised, that entry
\* and every later one have no results page opened, nothing fetched, nothing
\* written, nothing appended and are not skipped, and downloaded.txt holds
\* its initial content followed by the identifiers the run appended before.
EncodingHardStop ==
    aborted_at # 0
    => /\ i = aborted_at
       /\ pc \in {"except", "finally", "exited", "killed"}
       /\ raised \in {"SystemExit", "UnicodeEncodeError"}
       /\ \A j \in aborted_at..Len(formdata) : Untouched(j) /\ j \notin skipped
       /\ Range(appends) \subseteq 1..(aborted_at - 1)
       /\ downloaded_txt.data = log0.data \o LinesFor(appends)
       /\ IsPrefix(log0.data, downloaded_txt.data)

\* C15 witness: the run appended its first entry, then could not print the
\* "Fetching" line of the second, whose identifier the list read from
\* downloaded.txt did not hold, and has ended
EncodingHardStopSeen ==
    /\ pc = "exited"
    /\ aborted_at = 2
    /\ appends = <<1>>
    /\ ~InList(form_id, downloaded)
    /\ IdOf(1) # IdOf(2)
    /\ Len(downloaded_txt.data) > Len(log0.data)

\* C16 as stated: when a fetch for the current entry raised, the run is over
\* without an append for that entry or a later one, and downloaded.txt holds
\* its initial content followed by the identifiers appended before; the next
\* run skips the entries that run had appended and does not skip the entry
\* at which the fetch raised, whose identifier was no line of the log.
TransportFailure ==
    /\ \A j \in 1..Len(formdata) :
          FetchFailedAt(j)
          => /\ j = i
             /\ pc \in {"except", "finally", "exited", "killed"}
             /\ \A k \in Range(appends) : k < j
             /\ \A k \in (j + 1)..Len(formdata) : Untouched(k)
             /\ downloaded_txt.data = log0.data \o LinesFor(appends)
    /\ (failed.valid /\ ~failed.logged /\ pc \in Running)
         => \A j \in 1..Len(formdata) :
              /\ (formdata[j] \in failed.done /\ j < i) => j \in skipped
              /\ formdata[j] = failed.form => j \notin skipped

\* ------------------------------------------------------------------------
\* Order of the steps of one entry
\* ------------------------------------------------------------------------
\* the kinds that lines 203-215 handle before the given kind
KindsBefore(kind) ==
    IF kind = "tsv" THEN {}
    ELSE IF kind = "html" THEN {"tsv"} ELSE {"tsv", "html"}
WritesOf(j) == {kind \in KindNames : <<j, kind>> \in writes}
FetchesOf(j) == {kind \in KindNames : <<j, kind>> \in fetches}

\* C17: a kind is fetched or written only if it was asked for, only after
\* the results page of the entry was opened and only after every requested
\* kind that precedes it was written; only tsv and html are fetched; at each
\* position of the loop body exactly the requested kinds that precede it
\* are written; an entry is appended once, after all its requested kinds
\* were written; and while an entry is being processed every entry before
\* it was skipped or appended and every entry after it is untouched.
StepOrder ==
    /\ \A j \in 1..Len(formdata) :
          /\ WritesOf(j) \cup FetchesOf(j) \subseteq Requested(args)
          /\ FetchesOf(j) \subseteq {"tsv", "html"}
          /\ WritesOf(j) \cup FetchesOf(j) # {} => j \in navs
          /\ \A kind \in WritesOf(j) \cup FetchesOf(j) :
                KindsBefore(kind) \cap Requested(args) \subseteq WritesOf(j)
          /\ j \in Range(appends) => j \in navs /\ WritesOf(j) = Requested(args)
          /\ j \in navs => j <= i
          /\ (j \in navs /\ j < i) => j \in Range(appends)
          /\ j < i => j \in skipped \/ j \in Range(appends)
          /\ j > i => Untouched(j) /\ j \notin skipped
    /\ \A a, b \in 1..Len(appends) : a < b => appends[a] < appends[b]
    /\ pc \in {"loop", "check", "nav"} => i \notin navs
    /\ pc \in {"tsv", "html", "stats", "append"}
         => /\ i \in navs
            /\ i \notin Range(appends)
            /\ FetchesOf(i) = WritesOf(i) \cap {"tsv", "html"}
    /\ pc = "tsv" => WritesOf(i) = {}
    /\ pc = "html" => WritesOf(i) = {"tsv"} \cap Requested(args)
    /\ pc = "stats" => WritesOf(i) = {"tsv", "html"} \cap Requested(args)
    /\ pc = "append" => WritesOf(i) = Requested(args)

\* C17 witness: asked for tsv and stats only, the run appended its first
\* entry and has fetched and written the tsv of the second, whose stats are
\* next
StepOrderSeen ==
    /\ Requested(args) = {"tsv", "stats"}
    /\ appends = <<1>>
    /\ i = 2
    /\ pc = "stats"
    /\ WritesOf(2) = {"tsv"}
    /\ FetchesOf(1) = {"tsv"}

\* ------------------------------------------------------------------------
\* The login and the requests session
\* ------------------------------------------------------------------------
BeforeBridge == {"login", "read_list", "catalog", "filter", "bridge"}

\* C18 as stated: the requests session exists only once the site has accepted
\* the login, it then holds the cookies of the authenticated browser, and no
\* fetch is made without it, whether the catalog was discovered or loaded.
SessionBridgeAsStated ==
    /\ session = "open" => logged_in /\ cookies = "auth"
    /\ (pc \in {"tsv", "html"} \/ fetches # {}) => session = "open"
    /\ pc \in BeforeBridge => session = "none" /\ fetches = {}

\* C18 amended: the requests session exists only once login has returned and
\* the catalog step is over, it then holds the cookies the browser had at
\* that point, those of an authenticated session exactly when the site
\* accepted the login, and no fetch is made without it, whether the catalog
\* was discovered or loaded.
SessionBridge ==
    /\ session = "open"
         => /\ pc \notin BeforeBridge
            /\ cookies = BrowserCookies(logged_in)
    /\ session = "none" => cookies = "none"
    /\ (pc \in {"tsv", "html"} \/ fetches # {}) => session = "open"
    /\ pc \in BeforeBridge => session = "none" /\ fetches = {}
    /\ listings \in {0, 1}

\* C18 witness: a run that loaded the catalog from formdata.dat, and whose
\* login the site did not accept, has fetched through the requests session
SessionBridgeSeen ==
    /\ listings = 0
    /\ ~logged_in
    /\ session = "open"
    /\ fetches # {}
    /\ pc = "append"

\* ------------------------------------------------------------------------
\* The stats on their own: a results page is drawn, Nav reads its counters
\* ------------------------------------------------------------------------
MaxStatLen == 2
StatAlphabet == {"1", "-", Blank}
ElementSamples ==
    {Missing} \cup {Element(t) : t \in SeqsUpTo(StatAlphabet, MaxStatLen)}
PageSamples ==
    {Page(a, b, c) : a \in ElementSamples, b \in ElementSamples,
                     c \in ElementSamples}

InitStats ==
    \E p \in PageSamples :
        /\ InLoop(NoPrev.args, <<FormA>>, File(<<FormA>>))
        /\ session = "open"
        /\ cookies = "auth"
        /\ site = p
        /\ stats = NoStats
        /\ rejected = FALSE
        /\ pc = "loop"

NextStats == GetId \/ Fetching \/ Nav

SpecStats == InitStats /\ [][NextStats]_vars

\* the text is a decimal number: digits, one sign before them at most,
\* blanks around them at most
SignAt(text) == {p \in 1..Len(text) : text[p] \in {"-", "+"}}
DigitsAt(text) == {p \in 1..Len(text) : text[p] \in Digits}
IsNumber(text) ==
    /\ DigitsAt(text) # {}
    /\ \A p \in Min(DigitsAt(text))..Max(DigitsAt(text)) : text[p] \in Digits
    /\ Cardinality(SignAt(text)) <= 1
    /\ \A p \in SignAt(text) : p + 1 = Min(DigitsAt(text))
    /\ \A p \in 1..Len(text) :
          p \notin DigitsAt(text) \cup SignAt(text)
          => /\ text[p] = Blank
             /\ p < Min(DigitsAt(text) \cup SignAt(text)) \/ p > Max(DigitsAt(text))
RECURSIVE Pow10(_)
Pow10(n) == IF n = 0 THEN 1 ELSE 10 * Pow10(n - 1)
RECURSIVE SumOver(_, _)
SumOver(S, text) ==
    IF S = {} THEN 0
    ELSE LET p == Max(S)
         IN  DigitValue(text[p]) * Pow10(Max(DigitsAt(text)) - p)
                + SumOver(S \ {p}, text)
NumberOf(text) ==
    IF \E p \in SignAt(text) : text[p] = "-"
    THEN 0 - SumOver(DigitsAt(text), text)
    ELSE SumOver(DigitsAt(text), text)
Counted(el) == el.exists /\ IsNumber(el.text)

RecordedOnlyIfFetched ==
    [][(appends' # appends /\ FetchesOf(i) # {})
       => logged_in /\ cookies = "auth" /\ ~rejected]_vars
====
